---- MODULE Spec2Model ----
(***************************************************************************)
(* moz-context-search (src/index.js): the context-menu search add-on.      *)
(*                                                                         *)
(* The model follows the add-on's two event handlers, MCS.onPopupShown and *)
(* MCS.onMenuClicked, and the promise chain onPopupShown starts:           *)
(*   getKeywordBookmarksForTag -> keywordResultsToBookmarks ->             *)
(*   promiseAllBookmarksWithFavicons -> sortBookmarksByTitle ->            *)
(*   addKeywordBookmarksMenuitems, ended by .catch(logError).              *)
(* A string is a sequence of one-character strings.  The Places and search *)
(* services are external: what they answer is the snapshot `repo`, drawn   *)
(* in Init and never changed.                                              *)
(***************************************************************************)
EXTENDS Integers, Sequences, FiniteSets, TLC

VARIABLES
    repo,        \* what the Places / search services answer, and the tag preference
    mruEngine,   \* MCS.mruEngine
    menu,        \* the attributes of #mcs-menu
    popup,       \* the children of #mcs-popup, first to last
    runs,        \* the promise chains started by onPopupShown, oldest first
    log,         \* what was written with console.error / console.warn
    nav,         \* the effects of onMenuClicked outside MCS
    call,        \* the latest call of a bookmark engine's getSubmission
    limits       \* how many events a behaviour of the model takes

vars == <<repo, mruEngine, menu, popup, runs, log, nav, call, limits>>

----------------------------------------------------------------------------
(* Bounds of the model.                                                    *)

\* URIs the tagging service returns for the tag
NumURIs == 2
\* URIs of the snapshots that vary the titles to sort
NumTitled == 3
\* popup-shown events of one behaviour, and clicks
MaxPopups == 2
MaxClicks == 1
\* longest template body and longest text of the getSubmission checks
MaxTemplateLen == 4
MaxTextLen == 2
\* longest text of the encoding checks
MaxEncodeLen == 3

----------------------------------------------------------------------------
(* Strings.                                                                *)

Marker == <<"%", "s">>

\* does `pat` occur in `s` at position i
MatchAt(s, pat, i) ==
    /\ i + Len(pat) - 1 <= Len(s)
    /\ \A k \in 1..Len(pat) : s[i + k - 1] = pat[k]

\* /%s/.test(str)
RegexTest(pat, s) == \E i \in 1..Len(s) : MatchAt(s, pat, i)

\* the replace without the g flag: the first match only
ReplaceAll_First(s, pat, rep) ==
    LET hits == {i \in 1..Len(s) : MatchAt(s, pat, i)}
    IN  IF hits = {} THEN s
        ELSE LET i == CHOOSE h \in hits : \A k \in hits : h <= k
             IN  SubSeq(s, 1, i - 1) \o rep \o SubSeq(s, i + Len(pat), Len(s))

\* str.replace(/pat/g, rep): one scan from the left, matches do not overlap, and
\* what was put in is not scanned again.  `rep` holds no "$" wherever the
\* add-on calls replace (encodeURIComponent escapes it), so it is taken literally.
RECURSIVE ReplaceFrom(_, _, _, _)
ReplaceFrom(s, pat, rep, i) ==
    IF i > Len(s) THEN <<>>
    ELSE IF MatchAt(s, pat, i) THEN rep \o ReplaceFrom(s, pat, rep, i + Len(pat))
    ELSE <<s[i]>> \o ReplaceFrom(s, pat, rep, i + 1)

ReplaceAll(s, pat, rep) == ReplaceFrom(s, pat, rep, 1)

\* the UTF-16 code unit of each character the model's strings are made of
CharCode ==
    (" " :> 32) @@ ("#" :> 35) @@ ("$" :> 36) @@ ("%" :> 37) @@ ("&" :> 38) @@
    ("+" :> 43) @@ ("/" :> 47) @@ ("0" :> 48) @@ ("2" :> 50) @@ ("3" :> 51) @@
    ("5" :> 53) @@ ("6" :> 54) @@ (":" :> 58) @@ ("=" :> 61) @@ ("?" :> 63) @@
    ("F" :> 70) @@ ("h" :> 104) @@ ("q" :> 113) @@ ("s" :> 115) @@ ("x" :> 120)

CharOf(code) == CHOOSE c \in DOMAIN CharCode : CharCode[c] = code

HexDigits == <<"0", "1", "2", "3", "4", "5", "6", "7", "8", "9", "A", "B", "C", "D", "E", "F">>

IsHexDigit(c) == \E k \in 1..Len(HexDigits) : HexDigits[k] = c

HexValue(c) == (CHOOSE k \in 1..Len(HexDigits) : HexDigits[k] = c) - 1

\* the characters encodeURIComponent leaves alone: A-Z a-z 0-9 - _ . ! ~ * ' ( )
Unreserved ==
    {"a", "b", "c", "d", "e", "h", "l", "m", "o", "p", "q", "r", "s", "t", "w", "x",
     "F", "0", "2", "3", "5", "6", "-", "_", ".", "!", "~", "*", "'", "(", ")"}

\* encodeURIComponent of one character below U+0080: itself, or %XX of its one
\* UTF-8 byte
EscapeChar(c) ==
    IF c \in Unreserved THEN <<c>>
    ELSE <<"%", HexDigits[(CharCode[c] \div 16) + 1], HexDigits[(CharCode[c] % 16) + 1]>>

RECURSIVE encodeURIComponent(_)
encodeURIComponent(s) ==
    IF s = <<>> THEN <<>> ELSE EscapeChar(Head(s)) \o encodeURIComponent(Tail(s))

\* decodeURIComponent: every %XX becomes the character of that byte; a "%" not
\* followed by two hex digits, or a byte that starts no UTF-8 sequence, throws
\* URIError.  The model's strings have no hex letter after "%", so a byte of
\* 0x80 or more is a continuation byte out of place.
RECURSIVE DecodeFrom(_, _)
DecodeFrom(s, i) ==
    IF i > Len(s) THEN [threw |-> FALSE, value |-> <<>>]
    ELSE IF s[i] # "%" THEN
        LET rest == DecodeFrom(s, i + 1)
        IN  [threw |-> rest.threw, value |-> <<s[i]>> \o rest.value]
    ELSE IF i + 2 > Len(s) \/ ~IsHexDigit(s[i + 1]) \/ ~IsHexDigit(s[i + 2]) THEN
        [threw |-> TRUE, value |-> <<>>]
    ELSE
        LET byte == 16 * HexValue(s[i + 1]) + HexValue(s[i + 2])
            rest == DecodeFrom(s, i + 3)
        IN  IF byte >= 128 THEN [threw |-> TRUE, value |-> <<>>]
            ELSE [threw |-> rest.threw, value |-> <<CharOf(byte)>> \o rest.value]

decodeURIComponent(s) == DecodeFrom(s, 1)

\* sdk/base64 encode of a string of bytes: the sextets of each 3-byte group,
\* "=" where the last group is short
Base64Alphabet ==
    <<"A","B","C","D","E","F","G","H","I","J","K","L","M","N","O","P",
      "Q","R","S","T","U","V","W","X","Y","Z","a","b","c","d","e","f",
      "g","h","i","j","k","l","m","n","o","p","q","r","s","t","u","v",
      "w","x","y","z","0","1","2","3","4","5","6","7","8","9","+","/">>

RECURSIVE Base64Encode(_)
Base64Encode(bytes) ==
    IF bytes = <<>> THEN <<>>
    ELSE LET n  == Len(bytes)
             b1 == bytes[1]
             b2 == IF n >= 2 THEN bytes[2] ELSE 0
             b3 == IF n >= 3 THEN bytes[3] ELSE 0
             c1 == Base64Alphabet[(b1 \div 4) + 1]
             c2 == Base64Alphabet[((b1 % 4) * 16 + (b2 \div 16)) + 1]
             c3 == IF n >= 2 THEN Base64Alphabet[((b2 % 16) * 4 + (b3 \div 64)) + 1] ELSE "="
             c4 == IF n >= 3 THEN Base64Alphabet[(b3 % 64) + 1] ELSE "="
         IN  <<c1, c2, c3, c4>> \o
             (IF n > 3 THEN Base64Encode(SubSeq(bytes, 4, n)) ELSE <<>>)

----------------------------------------------------------------------------
(* The services the add-on reads: the snapshot `repo`.                     *)
(*   repo.tag          the searchBookmarksTag preference                   *)
(*   repo.uris         pTagging.getURIsForTag(tag), as indexes of profile  *)
(*   repo.tagging      "returns" | "throws": how getURIsForTag ends        *)
(*   repo.profile[u]   what Places holds for URI u:                        *)
(*     url, keyword, postData   the keyword entry of the URI               *)
(*     kw        "record" | "null" | "rejected": how pKeywords.fetch ends  *)
(*     ids       pBookmarks.getBookmarkIdsForURI, in the order returned;   *)
(*               each item [id, type, title, annotation]                   *)
(*     throwsAt  the Places call that throws for this URI, or "none"       *)
(*     favicon   how promiseFaviconData(url) ends: [outcome, dataLen,      *)
(*               data, mimeType], outcome "rejected" or "resolved"         *)
(*   repo.engines, repo.defaultEngine   Services.search                    *)

TYPE_BOOKMARK == "TYPE_BOOKMARK"
TYPE_FOLDER == "TYPE_FOLDER"
TYPE_SEPARATOR == "TYPE_SEPARATOR"

NoAnnotation == "(no annotation)"
Undefined == "undefined"

\* pFavicons.defaultFavicon.spec, read through MCS.getDefaultFavicon
getDefaultFavicon == <<"chrome://mozapps/skin/places/defaultFavicon.png">>

\* the URI a url names: the urls of the snapshot are distinct
URIOfURL(url) == CHOOSE u \in DOMAIN repo.profile : repo.profile[u].url = url

\* Services.io.newURI(url): the platform's parser, outside this repository.
\* A url parses when it is scheme "://" host "/" rest, and the host, its %XX
\* escapes undone, is not empty and holds none of the characters that end a host.
Schemes == {<<"h">>, <<"h", "t", "t", "p", "s">>}

HasScheme(url, scheme) == MatchAt(url, scheme \o <<":", "/", "/">>, 1)

HostOf(url) ==
    LET scheme == CHOOSE sc \in Schemes : HasScheme(url, sc)
        after == SubSeq(url, Len(scheme) + 4, Len(url))
        ends  == {i \in 1..Len(after) : after[i] = "/"}
    IN  IF ends = {} THEN after
        ELSE SubSeq(after, 1, (CHOOSE i \in ends : \A j \in ends : i <= j) - 1)

RECURSIVE Unescape(_)
Unescape(s) ==
    IF s = <<>> THEN <<>>
    ELSE IF Head(s) = "%" /\ Len(s) >= 3 /\ IsHexDigit(s[2]) /\ IsHexDigit(s[3])
              /\ 16 * HexValue(s[2]) + HexValue(s[3]) \in {CharCode[c] : c \in DOMAIN CharCode}
         THEN <<CharOf(16 * HexValue(s[2]) + HexValue(s[3]))>> \o Unescape(SubSeq(s, 4, Len(s)))
         ELSE <<Head(s)>> \o Unescape(Tail(s))

newURIThrows(url) ==
    \/ \A scheme \in Schemes : ~HasScheme(url, scheme)
    \/ LET host == Unescape(HostOf(url))
       IN  host = <<>> \/ \E i \in 1..Len(host) : host[i] \in {" ", "/", "?", "#", ":"}

----------------------------------------------------------------------------
(* MCS.keywordResultToBookmark and MCS.keywordResultsToBookmarks.          *)

Threw == [tag |-> "throw"]
Null == [tag |-> "null"]

\* what pKeywords.fetch({ url }) resolves with (when it does not reject)
KeywordResult(u) ==
    IF repo.profile[u].kw = "record"
    THEN [tag |-> "record", keyword |-> repo.profile[u].keyword,
          url |-> repo.profile[u].url, postData |-> repo.profile[u].postData]
    ELSE Null

\* the test of the marker left out
HasSearchParam_NoTest(url, postData) == TRUE

\* only keep those which have a search param (`%s`)
HasSearchParam(url, postData) == RegexTest(Marker, url) \/ RegexTest(Marker, postData)

\* the first id, whatever its type
FindBookmarkId_AnyType(ids) ==
    IF ids = <<>> THEN [tag |-> "null"] ELSE [tag |-> "item", item |-> ids[1]]

\* the lowest id of bookmark type
FindBookmarkId_Lowest(ids) ==
    LET hits == {i \in 1..Len(ids) : ids[i].type = TYPE_BOOKMARK}
    IN  IF hits = {} THEN [tag |-> "null"]
        ELSE [tag |-> "item",
              item |-> ids[CHOOSE i \in hits : \A j \in hits : ids[i].id <= ids[j].id]]

\* bookmarkIds.find(id => pBookmarks.getItemType(id) === TYPE_BOOKMARK): the
\* first such item in the order the ids were returned, or Null
FindBookmarkId(ids) ==
    LET hits == {i \in 1..Len(ids) : ids[i].type = TYPE_BOOKMARK}
    IN  IF hits = {} THEN Null
        ELSE [tag |-> "item", item |-> ids[CHOOSE i \in hits : \A j \in hits : i <= j]]

keywordResultToBookmark(keywordResult) ==
    IF keywordResult.tag = "null" THEN Threw      \* TypeError: keywordResult is null
    ELSE
    LET url     == keywordResult.url
        decoded == IF keywordResult.postData # <<>>
                   THEN decodeURIComponent(keywordResult.postData)
                   ELSE [threw |-> FALSE, value |-> <<>>]
        postData == decoded.value
        p       == repo.profile[URIOfURL(url)]
        found   == FindBookmarkId(p.ids)
    IN  IF decoded.threw THEN Threw
        ELSE IF ~HasSearchParam(url, postData) THEN Null
        ELSE IF newURIThrows(url) THEN Threw
        ELSE IF p.throwsAt = "getBookmarkIdsForURI" THEN Threw
        ELSE IF p.throwsAt = "getItemType" /\ Len(p.ids) > 0 THEN Threw
        ELSE IF found.tag = "null" THEN Null
        ELSE IF p.throwsAt \in {"itemHasAnnotation", "getItemTitle"} THEN Threw
        ELSE [tag |-> "bookmark",
              id |-> found.item.id,
              description |-> IF found.item.annotation # NoAnnotation
                              THEN found.item.annotation ELSE "",
              title |-> found.item.title,
              url |-> url,
              keyword |-> keywordResult.keyword,
              iconURL |-> <<>>,
              postData |-> postData]

\* keywordResults.map(MCS.keywordResultToBookmark).filter(Boolean): [threw, value]
keywordResultsToBookmarks(keywordResults) ==
    LET mapped == [i \in 1..Len(keywordResults) |-> keywordResultToBookmark(keywordResults[i])]
    IN  IF \E i \in 1..Len(mapped) : mapped[i].tag = "throw"
        THEN [threw |-> TRUE, value |-> <<>>]
        ELSE [threw |-> FALSE, value |-> SelectSeq(mapped, LAMBDA b : b.tag = "bookmark")]

----------------------------------------------------------------------------
(* MCS.resolveBookmarkFavicon.                                             *)

\* what the promise of resolveBookmarkFavicon(bookmark) resolves with; it never
\* rejects: the .catch turns a failed fetch into the default favicon
resolveBookmarkFavicon(bookmark) ==
    LET data == repo.profile[URIOfURL(bookmark.url)].favicon
    IN  IF data.outcome = "rejected"
        THEN [bookmark EXCEPT !.iconURL = getDefaultFavicon]
        ELSE IF data.dataLen = 0
        THEN [tag |-> "string", value |-> getDefaultFavicon]
        ELSE [bookmark EXCEPT !.iconURL =
                 <<"data:", data.mimeType, ";base64,">> \o Base64Encode(data.data)]

----------------------------------------------------------------------------
(* MCS.sortBookmarksByTitle.                                               *)

\* the titles compared by code unit: "B" < "C" < "a"
localeCompare_CodeUnit(a, b) ==
    LET unit == ("B" :> 66) @@ ("C" :> 67) @@ ("a" :> 97)
    IN  IF unit[a] < unit[b] THEN -1 ELSE IF unit[a] > unit[b] THEN 1 ELSE 0

\* a.localeCompare(b) for the titles of the model: the collation order of the
\* locale puts "a" before "B" before "C" (by code unit "B" < "C" < "a")
LocaleRank == ("a" :> 1) @@ ("B" :> 2) @@ ("C" :> 3)

localeCompare(a, b) ==
    IF LocaleRank[a] < LocaleRank[b] THEN -1
    ELSE IF LocaleRank[a] > LocaleRank[b] THEN 1 ELSE 0

\* Array.prototype.sort with a comparator, as SpiderMonkey does it (a merge
\* sort): stable, an element goes behind those that do not compare greater
RECURSIVE InsertByTitle(_, _)
InsertByTitle(sorted, b) ==
    IF sorted = <<>> THEN <<b>>
    ELSE IF localeCompare(Head(sorted).title, b.title) <= 0
         THEN <<Head(sorted)>> \o InsertByTitle(Tail(sorted), b)
         ELSE <<b>> \o sorted

RECURSIVE SortFrom(_, _)
SortFrom(done, rest) ==
    IF rest = <<>> THEN done ELSE SortFrom(InsertByTitle(done, Head(rest)), Tail(rest))

\* bookmarks.sort((a, b) => a.title.localeCompare(b.title)): [threw, value].
\* With two elements or more the comparator reads every element's title, and
\* undefined.localeCompare is a TypeError.
sortBookmarksByTitle(bookmarks) ==
    IF Len(bookmarks) >= 2 /\ \E i \in 1..Len(bookmarks) : bookmarks[i].tag # "bookmark"
    THEN [threw |-> TRUE, value |-> <<>>]
    ELSE [threw |-> FALSE, value |-> SortFrom(<<>>, bookmarks)]

----------------------------------------------------------------------------
(* MCS.addKeywordBookmarkMenuitem, its engine, MCS.addKeywordBookmarksMenuitems. *)

NoPostData == [present |-> FALSE]

\* the encoding without the replace
encodedText_NoPlus(searchText) == encodeURIComponent(searchText)

\* encodeURIComponent(searchText).replace(/%20/g, "+")
encodedText(searchText) == ReplaceAll(encodeURIComponent(searchText), <<"%", "2", "0">>, <<"+">>)

\* the submission with the content length of the template, not of the body
getSubmission_TemplateLength(bookmark, searchText) ==
    IF bookmark.tag # "bookmark" THEN [threw |-> TRUE]
    ELSE LET url == ReplaceAll(bookmark.url, Marker, encodedText(searchText))
         IN  IF newURIThrows(url) THEN [threw |-> TRUE]
             ELSE [threw |-> FALSE,
                   uri |-> url,
                   postData |->
                       IF bookmark.postData # <<>>
                       THEN [present |-> TRUE,
                             contentType |-> "application/x-www-form-urlencoded",
                             data |-> ReplaceAll(bookmark.postData, Marker, encodedText(searchText)),
                             contentLength |-> Len(bookmark.postData)]
                       ELSE NoPostData]

\* menuitem.engine.getSubmission(searchText): [threw, uri, postData].  `bookmark`
\* is what the closure holds: a bookmark object or, after a zero-length favicon,
\* a string, whose .url is undefined.
getSubmission(bookmark, searchText) ==
    IF bookmark.tag # "bookmark" THEN [threw |-> TRUE]
    ELSE LET url == ReplaceAll(bookmark.url, Marker, encodedText(searchText))
         IN  IF newURIThrows(url) THEN [threw |-> TRUE]
             ELSE [threw |-> FALSE,
                   uri |-> url,
                   postData |->
                       IF bookmark.postData # <<>>
                       THEN LET data == ReplaceAll(bookmark.postData, Marker, encodedText(searchText))
                            IN  [present |-> TRUE,
                                 contentType |-> "application/x-www-form-urlencoded",
                                 data |-> data,
                                 contentLength |-> Len(data)]
                       ELSE NoPostData]

\* the menuitem addKeywordBookmarkMenuitem appends
BookmarkMenuitem(bookmark, searchText) ==
    [type |-> "menuitem",
     label |-> IF bookmark.tag = "bookmark" THEN bookmark.title ELSE Undefined,
     image |-> IF bookmark.tag = "bookmark" THEN bookmark.iconURL ELSE <<Undefined>>,
     searchtext |-> searchText,
     tooltiptext |-> IF bookmark.tag = "bookmark" THEN bookmark.description ELSE "",
     engine |-> [kind |-> "bookmark", bookmark |-> bookmark]]

Menuseparator == [type |-> "menuseparator"]

\* a separator before the bookmarks whatever prependSeparator is
addKeywordBookmarksMenuitems_AlwaysSeparator(bookmarks, prependSeparator, searchText, menupopup) ==
    IF Len(bookmarks) = 0 THEN menupopup
    ELSE menupopup
         \o <<Menuseparator>>
         \o [i \in 1..Len(bookmarks) |-> BookmarkMenuitem(bookmarks[i], searchText)]

\* the children of menupopup after addKeywordBookmarksMenuitems
addKeywordBookmarksMenuitems(bookmarks, prependSeparator, searchText, menupopup) ==
    IF Len(bookmarks) = 0 THEN menupopup
    ELSE menupopup
         \o (IF prependSeparator THEN <<Menuseparator>> ELSE <<>>)
         \o [i \in 1..Len(bookmarks) |-> BookmarkMenuitem(bookmarks[i], searchText)]

----------------------------------------------------------------------------
(* The promise chain of MCS.onPopupShown.  A run is one chain:             *)
(*   searchText, prependSeparator   what the last callback closes over     *)
(*   stage      "resolving" (Promise.all of the keyword fetches pending),  *)
(*              "enriching" (Promise.all of the favicons pending),         *)
(*              "done" (the last .then ran), "failed" (.catch ran)         *)
(*   kw[k]      "pending" | "resolved": the fetch for repo.uris[k]         *)
(*   bookmarks  what keywordResultsToBookmarks returned                    *)
(*   fav[i]     "pending" | "settled": resolveBookmarkFavicon(bookmarks[i])*)
(*   enriched   what promiseAllBookmarksWithFavicons resolved with         *)
(*   sorted     what sortBookmarksByTitle returned                         *)

\* Promise.all(fetchingKeywords) resolves when every fetch has resolved
KeywordsAllResolved(kw) == \A k \in 1..Len(kw) : kw[k] = "resolved"

\* resolved with the first favicon promise that has
ResolvingFaviconsAllResolved_Race(fav) ==
    fav = <<>> \/ \E i \in 1..Len(fav) : fav[i] = "settled"

\* resolved as soon as the favicon promise of the first bookmark has
ResolvingFaviconsAllResolved_First(fav) == fav = <<>> \/ fav[1] = "settled"

\* Promise.all(resolvingFavicons) resolves when every favicon promise has
ResolvingFaviconsAllResolved(fav) == \A i \in 1..Len(fav) : fav[i] = "settled"

PipelineError(r) == [level |-> "error", what |-> "logError", run |-> r]
FaviconError(r) == [level |-> "error", what |-> "promiseFaviconData failed", run |-> r]

\* a rejection that no .catch handles: the chain stays as it is
Failed_Unhandled(run, r, menupopup) ==
    [run |-> run, popup |-> menupopup, logged |-> {}]

\* .catch(logError): the chain ends, the error is logged
Failed(run, r, menupopup) ==
    [run |-> [run EXCEPT !.stage = "failed"], popup |-> menupopup, logged |-> {PipelineError(r)}]

\* .then(sortBookmarksByTitle).then(addKeywordBookmarksMenuitems), once
\* Promise.all(resolvingFavicons) has resolved
SortAndAdd(run, r, menupopup) ==
    LET enriched == [i \in 1..Len(run.bookmarks) |->
                        IF run.fav[i] = "settled"
                        THEN resolveBookmarkFavicon(run.bookmarks[i])
                        ELSE run.bookmarks[i]]
        sorting  == sortBookmarksByTitle(enriched)
    IN  IF sorting.threw THEN Failed([run EXCEPT !.enriched = enriched], r, menupopup)
        ELSE [run |-> [run EXCEPT !.stage = "done", !.enriched = enriched,
                                  !.sorted = sorting.value],
              popup |-> addKeywordBookmarksMenuitems(sorting.value, run.prependSeparator,
                                                     run.searchText, menupopup),
              logged |-> {}]

\* MCS.promiseAllBookmarksWithFavicons: one favicon fetch per bookmark; with no
\* bookmark Promise.all([]) has resolved at once
promiseAllBookmarksWithFavicons(run, r, menupopup) ==
    IF ResolvingFaviconsAllResolved(run.fav) THEN SortAndAdd(run, r, menupopup)
    ELSE [run |-> run, popup |-> menupopup, logged |-> {}]

\* .then(keywordResultsToBookmarks).then(promiseAllBookmarksWithFavicons), once
\* Promise.all(fetchingKeywords) has resolved
getKeywordBookmarksForTag(run, r, menupopup) ==
    IF ~KeywordsAllResolved(run.kw) THEN [run |-> run, popup |-> menupopup, logged |-> {}]
    ELSE LET res == keywordResultsToBookmarks(
                        [k \in 1..Len(repo.uris) |-> KeywordResult(repo.uris[k])])
         IN  IF res.threw THEN Failed(run, r, menupopup)
             ELSE promiseAllBookmarksWithFavicons(
                      [run EXCEPT !.stage = "enriching", !.bookmarks = res.value,
                                  !.fav = [i \in 1..Len(res.value) |-> "pending"]],
                      r, menupopup)

NewRun(searchText, prependSeparator) ==
    [searchText |-> searchText, prependSeparator |-> prependSeparator,
     stage |-> "resolving", kw |-> [k \in 1..Len(repo.uris) |-> "pending"],
     bookmarks |-> <<>>, fav |-> <<>>, enriched |-> <<>>, sorted |-> <<>>]

\* pKeywords.fetch for repo.uris[k] of run r settles
KeywordFetchSettles(r, k) ==
    /\ runs[r].stage = "resolving"
    /\ runs[r].kw[k] = "pending"
    /\ LET after == IF repo.profile[repo.uris[k]].kw = "rejected"
                    THEN Failed(runs[r], r, popup)
                    ELSE getKeywordBookmarksForTag(
                             [runs[r] EXCEPT !.kw[k] = "resolved"], r, popup)
       IN  /\ runs' = [runs EXCEPT ![r] = after.run]
           /\ popup' = after.popup
           /\ log' = log \cup after.logged
    /\ UNCHANGED <<repo, mruEngine, menu, nav, call, limits>>

\* promiseFaviconData for bookmarks[i] of run r settles
FaviconSettles(r, i) ==
    /\ runs[r].stage = "enriching"
    /\ runs[r].fav[i] = "pending"
    /\ LET after == promiseAllBookmarksWithFavicons(
                        [runs[r] EXCEPT !.fav[i] = "settled"], r, popup)
           failed == repo.profile[URIOfURL(runs[r].bookmarks[i].url)].favicon.outcome = "rejected"
       IN  /\ runs' = [runs EXCEPT ![r] = after.run]
           /\ popup' = after.popup
           /\ log' = log \cup after.logged \cup (IF failed THEN {FaviconError(r)} ELSE {})
    /\ UNCHANGED <<repo, mruEngine, menu, nav, call, limits>>

----------------------------------------------------------------------------
(* MCS.onPopupShown.                                                       *)

maxPreviewLength == 15

NullEngine == [kind |-> "null"]

\* engine.name: the engine a bookmark menuitem carries has none
EngineName(engine) == IF engine.kind = "system" THEN engine.name ELSE ""

\* every engine counts as one of the list
IndexOf_Always(engines, engine) == TRUE

\* engines.indexOf(engine) !== -1
IndexOf(engines, engine) == \E i \in 1..Len(engines) : engines[i] = engine

previewText(searchText) ==
    IF Len(searchText) > maxPreviewLength
    THEN SubSeq(searchText, 1, maxPreviewLength) \o <<"...">>
    ELSE searchText

\* the menuitem of a system engine
EngineMenuitem(engine, searchText) ==
    [type |-> "menuitem", label |-> engine.name, image |-> engine.icon,
     searchtext |-> searchText, tooltiptext |-> "", engine |-> engine]

Warn(what) == [level |-> "warn", what |-> what, run |-> 0]
Uncaught(where) == [level |-> "uncaught", what |-> where, run |-> 0]

\* The event: `present` (event.view, gContextMenu and the three elements are
\* there), `selected` (isTextSelected || isContentSelected), `textSelected`.
OnPopupShown(present, selected, textSelected) ==
    /\ limits.popups > 0
    /\ limits' = [limits EXCEPT !.popups = @ - 1]
    /\ UNCHANGED <<repo, nav, call>>
    /\ IF ~present
       THEN /\ log' = log \cup {Warn("onPopupShown - missing")}
            /\ UNCHANGED <<mruEngine, menu, popup, runs>>
       ELSE
       LET isSomethingSelected == selected \/ Len(textSelected) > 0
           hidden == [menu EXCEPT !.hidden = ~isSomethingSelected]
           mru1 == IF mruEngine # NullEngine THEN mruEngine ELSE repo.defaultEngine
       IN  IF ~repo.engines.valid
           THEN \* engines.indexOf on a falsy value: TypeError, the handler ends
                /\ mruEngine' = mru1
                /\ menu' = hidden
                /\ popup' = <<>>
                /\ log' = log \cup {Warn("getVisibleEngines() failed"), Uncaught("onPopupShown")}
                /\ UNCHANGED runs
           ELSE
           LET engines == repo.engines.list
               mru == IF IndexOf(engines, mru1) THEN mru1 ELSE repo.defaultEngine
           IN  /\ mruEngine' = mru
               /\ IF mru = NullEngine \/ EngineName(mru) = ""
                  THEN /\ menu' = hidden
                       /\ popup' = <<>>
                       /\ log' = log \cup {Warn("onPopupShown - no mruEngine")}
                       /\ UNCHANGED runs
                  ELSE IF ~isSomethingSelected \/ textSelected = <<>>
                  THEN /\ menu' = hidden
                       /\ popup' = <<>>
                       /\ log' = IF isSomethingSelected
                                 THEN log \cup {Warn("onPopupShown - missing selected text")}
                                 ELSE log
                       /\ UNCHANGED runs
                  ELSE
                  LET searchText == textSelected
                      items == [i \in 1..Len(engines) |-> EngineMenuitem(engines[i], searchText)]
                      prependSeparator == Len(engines) > 0
                      r == Len(runs) + 1
                      after == getKeywordBookmarksForTag(
                                   NewRun(searchText, prependSeparator), r, items)
                  IN  /\ menu' = [hidden |-> FALSE,
                                  label |-> [name |-> mru.name,
                                             previewText |-> previewText(searchText)],
                                  image |-> mru.icon,
                                  searchtext |-> searchText]
                      /\ IF repo.tag = ""
                         THEN /\ popup' = items
                              /\ UNCHANGED <<runs, log>>
                         ELSE IF repo.tagging = "throws"
                         THEN \* getURIsForTag throws in getKeywordBookmarksForTag,
                              \* called before the chain and its .catch exist
                              /\ popup' = items
                              /\ log' = log \cup {Uncaught("onPopupShown")}
                              /\ UNCHANGED runs
                         ELSE /\ runs' = Append(runs, after.run)
                              /\ popup' = after.popup
                              /\ log' = log \cup after.logged

----------------------------------------------------------------------------
(* MCS.onMenuClicked.                                                      *)

\* getSubmission of an engine of the search service: the platform's
SystemSubmission(engine, searchText) ==
    [threw |-> FALSE,
     uri |-> <<"h", ":", "/", "/", engine.name, "/", "?", "q", "=">> \o encodedText(searchText),
     postData |-> NoPostData]

EngineSubmission(engine, searchText) ==
    IF engine.kind = "bookmark" THEN getSubmission(engine.bookmark, searchText)
    ELSE SystemSubmission(engine, searchText)

\* whereToOpen and inBackground, or "ignore" for a button that is none of the three
WhereToOpen(button, shiftKey, ctrlKey) ==
    IF button = "middle" THEN [where |-> "tab", inBackground |-> FALSE]
    ELSE IF button = "right" THEN [where |-> "current", inBackground |-> FALSE]
    ELSE IF button = "left" THEN
        IF shiftKey THEN [where |-> "window", inBackground |-> FALSE]
        ELSE IF ctrlKey THEN [where |-> "tab", inBackground |-> FALSE]
        ELSE IF repo.loadInBackground THEN [where |-> "tabshifted", inBackground |-> TRUE]
        ELSE [where |-> "tab", inBackground |-> FALSE]
    ELSE [where |-> "ignore", inBackground |-> FALSE]

NotCalled == [threw |-> FALSE, called |-> FALSE]

NoCall == [result |-> NotCalled]

\* The event: the button and modifier keys, `present` (event.view and
\* #contentAreaContextMenu are there), and the target: 0 for #mcs-menu itself,
\* i for the i-th child of the popup.
OnMenuClicked(button, shiftKey, ctrlKey, present, target) ==
    /\ limits.clicks > 0
    /\ limits' = [limits EXCEPT !.clicks = @ - 1]
    /\ target \in 0..Len(popup)
    /\ UNCHANGED <<repo, menu, popup, runs>>
    /\ LET how == WhereToOpen(button, shiftKey, ctrlKey)
           isItem == target > 0 /\ popup[target].type = "menuitem"
           engine == IF isItem THEN popup[target].engine ELSE mruEngine
           searchText == IF isItem THEN popup[target].searchtext
                         ELSE IF target = 0 THEN menu.searchtext ELSE <<>>
           submission == EngineSubmission(engine, searchText)
       IN  IF how.where = "ignore"
           THEN UNCHANGED <<mruEngine, log, nav, call>>
           ELSE IF ~present
           THEN /\ log' = log \cup {Warn("onMenuClicked - missing")}
                /\ UNCHANGED <<mruEngine, nav, call>>
           ELSE IF engine = NullEngine
           THEN /\ log' = log \cup {Warn("onMenuClicked - missing engine")}
                /\ UNCHANGED <<mruEngine, nav, call>>
           ELSE IF searchText = <<>>
           THEN /\ log' = log \cup {Warn("onMenuClicked - missing [searchtext]")}
                /\ UNCHANGED <<mruEngine, nav, call>>
           ELSE /\ call' = IF engine.kind = "bookmark"
                           THEN [bookmark |-> engine.bookmark, searchText |-> searchText,
                                 result |-> submission]
                           ELSE call
                /\ IF submission.threw
                   THEN /\ log' = log \cup {Uncaught("onMenuClicked")}
                        /\ UNCHANGED <<mruEngine, nav>>
                   ELSE /\ mruEngine' = engine
                        /\ nav' = [hidePopup |-> TRUE,
                                   openLinkIn |-> [url |-> submission.uri,
                                                   where |-> how.where,
                                                   postData |-> submission.postData,
                                                   inBackground |-> how.inBackground]]
                        /\ UNCHANGED log

----------------------------------------------------------------------------
(* The snapshots and events the model draws from.                          *)

UriLetter == <<"a", "b", "c", "d">>
UriTitle == <<"B", "a", "C", "a">>

\* the url of URI u: "h://" host "/" letter tail
Url(u, host, tail) == <<"h", ":", "/", "/">> \o host \o <<"/", UriLetter[u]>> \o tail

\* the items of URI u: pattern[n] = [n, type] gives item 2(u-1)+n its type
Items(u, pattern, title, annotation) ==
    [n \in 1..Len(pattern) |->
        [id |-> 2 * (u - 1) + pattern[n].n, type |-> pattern[n].type,
         title |-> title, annotation |-> annotation]]

B(n) == [n |-> n, type |-> TYPE_BOOKMARK]
F(n) == [n |-> n, type |-> TYPE_FOLDER]
S(n) == [n |-> n, type |-> TYPE_SEPARATOR]

ItemPatterns ==
    {<<>>, <<B(1)>>, <<F(1)>>, <<S(1)>>, <<F(1), B(2)>>, <<B(1), B(2)>>, <<B(2), B(1)>>}

ThrowPoints == {"getBookmarkIdsForURI", "getItemType", "itemHasAnnotation", "getItemTitle"}

Titles == {"a", "B", "C"}

FaviconRejected == [outcome |-> "rejected"]
FaviconEmpty == [outcome |-> "resolved", dataLen |-> 0, data |-> <<>>, mimeType |-> "image/png"]
FaviconIcon(u) ==
    [outcome |-> "resolved", dataLen |-> 2, data |-> <<137, 79 + u>>, mimeType |-> "image/png"]

\* a URI with a keyword search template on one titled bookmark with an icon
BaseProfile(u) ==
    [kw |-> "record", keyword |-> <<"k", UriLetter[u]>>,
     url |-> Url(u, <<"x">>, Marker), postData |-> <<>>,
     ids |-> Items(u, <<B(1)>>, "a", NoAnnotation),
     throwsAt |-> "none", favicon |-> FaviconIcon(u)]

\* postData as Places stores it: escaped ("%25s" is "%s"), or not
PostEscaped == <<"%", "2", "5", "s">>
PostRaw == <<"%", "s">>

\* the templates that carry the marker: in the url, in the postData, in both
MarkerTemplates(u) ==
    {[url |-> Url(u, <<"x">>, Marker), postData |-> <<>>],
     [url |-> Url(u, <<"x">>, <<>>), postData |-> PostEscaped],
     [url |-> Url(u, <<"x">>, Marker), postData |-> PostEscaped]}

\* profiles that vary what the resolve stage reads: how the keyword fetch ends,
\* where the marker is, which items the URI has, which Places call throws
ResolveProfiles(u) ==
    {[BaseProfile(u) EXCEPT !.kw = k] : k \in {"rejected", "null"}}
    \cup {[BaseProfile(u) EXCEPT !.postData = PostRaw]}
    \cup {[BaseProfile(u) EXCEPT !.url = Url(u, <<"x">>, <<>>), !.postData = pd] :
             pd \in {<<>>, <<"q">>}}
    \cup {[BaseProfile(u) EXCEPT !.url = t.url, !.postData = t.postData] :
             t \in MarkerTemplates(u)}
    \cup {[BaseProfile(u) EXCEPT !.ids = Items(u, pat, "a", NoAnnotation)] :
             pat \in ItemPatterns}
    \cup {[BaseProfile(u) EXCEPT !.throwsAt = th] : th \in ThrowPoints}

BaseProfileOnly(u) == {BaseProfile(u)}

\* profiles that vary what the enrich stage reads: how the favicon fetch ends
EnrichProfiles(u) ==
    {[BaseProfile(u) EXCEPT !.ids = Items(u, <<B(1)>>, UriTitle[u], NoAnnotation),
                            !.favicon = f] :
        f \in {FaviconRejected, FaviconEmpty, FaviconIcon(u)}}

\* profiles for runs that repeat: a keyword fetch that rejects, a favicon
\* fetch that rejects, an icon or none
RepeatProfiles(u) ==
    EnrichProfiles(u)
    \cup {[BaseProfile(u) EXCEPT !.ids = Items(u, <<B(1)>>, UriTitle[u], NoAnnotation),
                                 !.kw = "rejected"]}

\* profiles for a failure at each stage: those of the runs that repeat (the
\* keyword fetch rejects, the favicon fetch rejects, the favicon is empty so
\* that the sort reads a string) and a title lookup that throws
FailureProfiles(u) ==
    RepeatProfiles(u)
    \cup {[BaseProfile(u) EXCEPT !.ids = Items(u, <<B(1)>>, UriTitle[u], NoAnnotation),
                                 !.throwsAt = "getItemTitle"]}

\* profiles that vary what the sort reads: the titles
SortProfiles(u) ==
    {[BaseProfile(u) EXCEPT !.ids = Items(u, <<B(1)>>, title, NoAnnotation)] :
        title \in Titles}

\* profiles for the events of the menu: a search template, no keyword or one
\* without the marker, an icon or none, a template whose host is the marker
MenuProfiles(u) ==
    {BaseProfile(u), [BaseProfile(u) EXCEPT !.kw = "null"],
     [BaseProfile(u) EXCEPT !.url = Url(u, <<"x">>, <<>>)],
     [BaseProfile(u) EXCEPT !.favicon = FaviconEmpty],
     [BaseProfile(u) EXCEPT !.url = <<"h", ":", "/", "/">> \o Marker \o <<"/", UriLetter[u]>>]}

SystemEngine(name) == [kind |-> "system", name |-> name, icon |-> <<"icon:", name>>]

VisibleEngines == [valid |-> TRUE, list |-> <<SystemEngine("G"), SystemEngine("W")>>]

Texts == {<<"q">>, <<"q", " ">>}

MenuTexts == {<<"q">>, <<"q", "/">>}

Buttons == {"left", "middle", "right", "other"}

RECURSIVE Orderings(_)
Orderings(set) ==
    IF set = {} THEN {<<>>}
    ELSE UNION {{<<x>> \o o : o \in Orderings(set \ {x})} : x \in set}

\* one profile of P[u] for each URI u of P's domain
AllProfiles(P) ==
    {f \in [DOMAIN P -> UNION {P[u] : u \in DOMAIN P}] : \A u \in DOMAIN P : f[u] \in P[u]}

InitWith(profiles, uriSeqs, tags, engineLists, prefs, calls, maxPopups, maxClicks) ==
    /\ repo \in [tag : tags,
                 uris : uriSeqs,
                 tagging : {"returns"},
                 profile : profiles,
                 engines : engineLists,
                 defaultEngine : {SystemEngine("G")},
                 loadInBackground : prefs]
    /\ \A k \in 1..Len(repo.uris) : repo.uris[k] \in DOMAIN repo.profile
    /\ mruEngine = NullEngine
    /\ menu = [hidden |-> FALSE, label |-> [name |-> "", previewText |-> <<>>],
               image |-> <<>>, searchtext |-> <<>>]
    /\ popup = <<>>
    /\ runs = <<>>
    /\ log = {}
    /\ nav = [hidePopup |-> FALSE]
    /\ call \in calls
    /\ limits = [popups |-> maxPopups, clicks |-> maxClicks]

\* the strings over `chars` of length n, and up to n
RECURSIVE StringsOfLen(_, _)
StringsOfLen(chars, n) ==
    IF n = 0 THEN {<<>>}
    ELSE {<<c>> \o t : c \in chars, t \in StringsOfLen(chars, n - 1)}

StringsUpTo(chars, n) == UNION {StringsOfLen(chars, k) : k \in 0..n}

TemplateChars == {"%", "s", "x", "/"}
TextChars == {"s", "%", " ", "/"}

\* the decoded postData of the bookmarks: none, one marker, two, no marker
PostTemplates ==
    {<<>>, <<"q", "=", "%", "s">>, <<"%", "s", "&", "%", "s">>, <<"q">>}

\* the bookmarks a menuitem's engine may close over: the url parses and the
\* url or the postData carries the marker, as keywordResultToBookmark has tested
TemplateBookmarks ==
    {b \in {[tag |-> "bookmark", id |-> 1, description |-> "", title |-> "a",
             url |-> <<"h", ":", "/", "/">> \o body, keyword |-> <<"k", "a">>,
             iconURL |-> getDefaultFavicon, postData |-> pd] :
                body \in StringsUpTo(TemplateChars, MaxTemplateLen),
                pd \in PostTemplates} :
        ~newURIThrows(b.url) /\ HasSearchParam(b.url, b.postData)}

\* a call of getSubmission to make
Calls ==
    [bookmark : TemplateBookmarks, searchText : StringsUpTo(TextChars, MaxTextLen),
     result : {NotCalled}]

\* the characters of the texts to encode: letters, the space, a separator of
\* query parameters, and the characters an escaped space is written with
EncodeChars == {"a", "b", " ", "&", "%", "2", "0", "+"}

HelloWorld == <<"h", "e", "l", "l", "o", " ", "w", "o", "r", "l", "d">>

\* https://x.com/s?q=%s
QueryTemplate ==
    <<"h", "t", "t", "p", "s", ":", "/", "/", "x", ".", "c", "o", "m", "/", "s", "?", "q", "=">>
    \o Marker

\* calls of getSubmission of the engine of that template, with a text to encode
EncodeCalls ==
    [bookmark : {[tag |-> "bookmark", id |-> 1, description |-> "", title |-> "a",
                  url |-> QueryTemplate, keyword |-> <<"k", "a">>,
                  iconURL |-> getDefaultFavicon, postData |-> <<>>]},
     searchText : StringsUpTo(EncodeChars, MaxEncodeLen) \cup {HelloWorld},
     result : {NotCalled}]

\* engine.getSubmission(searchText) is called
GetSubmissionCall ==
    /\ "bookmark" \in DOMAIN call
    /\ call.result = NotCalled
    /\ call' = [call EXCEPT !.result = getSubmission(call.bookmark, call.searchText)]
    /\ UNCHANGED <<repo, mruEngine, menu, popup, runs, log, nav, limits>>

\* the events
PopupShown ==
    \E present \in BOOLEAN, selected \in BOOLEAN, textSelected \in Texts \cup {<<>>} :
        OnPopupShown(present, selected, textSelected)

KeywordFetch == \E r \in 1..Len(runs) : \E k \in 1..Len(runs[r].kw) : KeywordFetchSettles(r, k)

FaviconFetch == \E r \in 1..Len(runs) : \E i \in 1..Len(runs[r].fav) : FaviconSettles(r, i)

\* the popup-shown events of the menu: a selected text may hold a "/"
PopupShownAny ==
    \E present \in BOOLEAN, selected \in BOOLEAN, textSelected \in MenuTexts \cup {<<>>} :
        OnPopupShown(present, selected, textSelected)

MenuClicked ==
    \E button \in Buttons, shiftKey \in BOOLEAN, ctrlKey \in BOOLEAN, present \in BOOLEAN,
       target \in 0..Len(popup) :
        OnMenuClicked(button, shiftKey, ctrlKey, present, target)

\* the promise chain alone: onMenuClicked leaves popup, runs and log of the chain as they are
Pipeline == PopupShown \/ KeywordFetch \/ FaviconFetch

\* the lists getVisibleEngines may return, one event to the next
EngineLists ==
    {VisibleEngines,
     [valid |-> TRUE, list |-> <<SystemEngine("W")>>],
     [valid |-> TRUE, list |-> <<>>]}

\* the default engines of the search service: one of the list, one hidden from
\* it, one without a name, none
DefaultEngines == {SystemEngine("G"), SystemEngine("D"), SystemEngine(""), NullEngine}

\* the user shows or hides engines in the search preferences: onPopupShown
\* reads the list anew at each event
EnginesChange ==
    /\ \E list \in EngineLists : list # repo.engines /\ repo' = [repo EXCEPT !.engines = list]
    /\ UNCHANGED <<mruEngine, menu, popup, runs, log, nav, call, limits>>

Next == PopupShownAny \/ KeywordFetch \/ FaviconFetch \/ MenuClicked

\* one popup-shown event, so one run, over every snapshot of the resolve stage
InitResolve ==
    InitWith(AllProfiles([u \in 1..NumURIs |-> ResolveProfiles(u)]), {<<>>} \cup Orderings(1..NumURIs),
             {"search"}, {VisibleEngines}, {FALSE}, {NoCall}, 1, 0)

\* runs that overlap, over every way the favicon fetches end
InitEnrich ==
    InitWith(AllProfiles([u \in 1..NumURIs |-> EnrichProfiles(u)]), {[k \in 1..NumURIs |-> k]},
             {"search"}, {VisibleEngines}, {FALSE}, {NoCall}, MaxPopups, 0)

\* one run over every choice and order of titles, or with no tagged URI
InitSort ==
    InitWith(AllProfiles([u \in 1..NumTitled |-> SortProfiles(u)]),
             {<<>>} \cup Orderings(1..NumTitled),
             {"search"}, {VisibleEngines, [valid |-> TRUE, list |-> <<>>]},
             {FALSE}, {NoCall}, 1, 0)

\* the add-on after construction, over the snapshots of the menu's events
Init ==
    InitWith(AllProfiles([u \in 1..1 |-> MenuProfiles(u)]), {<<>>, <<1>>}, {"", "search"},
             {VisibleEngines, [valid |-> TRUE, list |-> <<>>], [valid |-> FALSE, list |-> <<>>]},
             BOOLEAN, {NoCall}, MaxPopups, MaxClicks)

\* a menuitem's engine and a text, over every template and text
InitSubmission ==
    InitWith(AllProfiles([u \in 1..1 |-> BaseProfileOnly(u)]), {<<1>>}, {"search"}, {VisibleEngines},
             {FALSE}, Calls, 0, 0)

\* two popup-shown events, so up to two runs over one snapshot
InitRepeat ==
    InitWith(AllProfiles([u \in 1..NumURIs |-> RepeatProfiles(u)]), {[k \in 1..NumURIs |-> k]},
             {"search"}, {VisibleEngines}, {FALSE}, {NoCall}, 2, 0)

\* one engine and every text to encode
InitEncode ==
    InitWith(AllProfiles([u \in 1..1 |-> BaseProfileOnly(u)]), {<<1>>}, {"search"}, {VisibleEngines},
             {FALSE}, EncodeCalls, 0, 0)

\* the menu over the default engines of the search service, a visible list
\* that changes, and one tagged keyword bookmark: a popup-shown event, a click
\* and the popup-shown event after it
InitMru ==
    /\ repo \in [tag : {"search"},
                 uris : {<<1>>},
                 tagging : {"returns"},
                 profile : AllProfiles([u \in 1..1 |-> BaseProfileOnly(u)]),
                 engines : EngineLists,
                 defaultEngine : DefaultEngines,
                 loadInBackground : {FALSE}]
    /\ mruEngine = NullEngine
    /\ menu = [hidden |-> FALSE, label |-> [name |-> "", previewText |-> <<>>],
               image |-> <<>>, searchtext |-> <<>>]
    /\ popup = <<>>
    /\ runs = <<>>
    /\ log = {}
    /\ nav = [hidePopup |-> FALSE]
    /\ call = NoCall
    /\ limits = [popups |-> 2, clicks |-> 1]

\* two popup-shown events over the failures of each stage, the lookup of the
\* tagged URIs included
InitFailure ==
    /\ repo \in [tag : {"search"},
                 uris : {[k \in 1..NumURIs |-> k]},
                 tagging : {"returns", "throws"},
                 profile : AllProfiles([u \in 1..NumURIs |-> FailureProfiles(u)]),
                 engines : {VisibleEngines},
                 defaultEngine : {SystemEngine("G")},
                 loadInBackground : {FALSE}]
    /\ mruEngine = NullEngine
    /\ menu = [hidden |-> FALSE, label |-> [name |-> "", previewText |-> <<>>],
               image |-> <<>>, searchtext |-> <<>>]
    /\ popup = <<>>
    /\ runs = <<>>
    /\ log = {}
    /\ nav = [hidePopup |-> FALSE]
    /\ call = NoCall
    /\ limits = [popups |-> 2, clicks |-> 0]

Spec == Init /\ [][Next]_vars

SpecFailure == InitFailure /\ [][Pipeline]_vars

SpecMru == InitMru /\ [][Next \/ EnginesChange]_vars

SpecResolve == InitResolve /\ [][Pipeline]_vars

SpecEnrich == InitEnrich /\ [][Pipeline]_vars

SpecSort == InitSort /\ [][Pipeline]_vars

SpecSubmission == InitSubmission /\ [][GetSubmissionCall]_vars

SpecEncode == InitEncode /\ [][GetSubmissionCall]_vars

SpecRepeat == InitRepeat /\ [][Pipeline]_vars

\* a keyword fetch, a favicon fetch, of a chain that waits for it is pending:
\* KeywordFetch, FaviconFetch is enabled
KeywordPending ==
    \E r \in 1..Len(runs) :
        runs[r].stage = "resolving" /\ \E k \in 1..Len(runs[r].kw) : runs[r].kw[k] = "pending"

FaviconPending ==
    \E r \in 1..Len(runs) :
        runs[r].stage = "enriching" /\ \E i \in 1..Len(runs[r].fav) : runs[r].fav[i] = "pending"

\* every fetch that is pending settles: the promises of Places and of the
\* favicon service are settled by the platform.  This is weak fairness of
\* KeywordFetch and of FaviconFetch, written with their enabling conditions.
SpecSettling ==
    /\ InitRepeat /\ [][Pipeline]_vars
    /\ ([]<>~KeywordPending) \/ ([]<><<KeywordFetch>>_vars)
    /\ ([]<>~FaviconPending) \/ ([]<><<FaviconFetch>>_vars)

----------------------------------------------------------------------------
(* What the claims speak of.                                               *)

Ended(run) == run.stage \in {"done", "failed"}

\* the bookmark menuitems of the popup, first to last
PopupBookmarks ==
    SelectSeq(popup, LAMBDA item : item.type = "menuitem" /\ item.engine.kind = "bookmark")

\* a Places call fails for URI u: the keyword fetch rejects, or a lookup throws
RepositoryError(u) ==
    \/ repo.profile[u].kw = "rejected"
    \/ repo.profile[u].kw = "record" /\ repo.profile[u].throwsAt # "none"

\* the keyword fetch of URI u finds no keyword
AbsentKeyword(u) == repo.profile[u].kw = "null"

\* the decoded postData of URI u's keyword entry, <<>> where it does not decode
DecodedPostData(u) == decodeURIComponent(repo.profile[u].postData).value

\* the items of URI u that are bookmarks
BookmarkItems(u) ==
    {n \in 1..Len(repo.profile[u].ids) : repo.profile[u].ids[n].type = TYPE_BOOKMARK}

\* URI u has a keyword search template on a bookmark, and no lookup of it fails
ValidTemplate(u) ==
    /\ repo.profile[u].kw = "record"
    /\ repo.profile[u].throwsAt = "none"
    /\ ~decodeURIComponent(repo.profile[u].postData).threw
    /\ RegexTest(Marker, repo.profile[u].url) \/ RegexTest(Marker, DecodedPostData(u))
    /\ BookmarkItems(u) # {}

Tagged == {repo.uris[k] : k \in 1..Len(repo.uris)}

\* the popup holds the bookmark engine of URI u
InMenu(u) ==
    \E i \in 1..Len(PopupBookmarks) :
        /\ PopupBookmarks[i].engine.bookmark.tag = "bookmark"
        /\ PopupBookmarks[i].engine.bookmark.url = repo.profile[u].url

\* C1: a repository error while looking up one tagged URI drops only that URI:
\* once the run has ended it was not aborted, and the menu holds the bookmark
\* engine of every other tagged URI with a valid keyword template.
C1_ErrorDropsOnlyThatURI ==
    \A r \in 1..Len(runs) :
        (Ended(runs[r]) /\ \E u \in Tagged : RepositoryError(u))
            => /\ runs[r].stage = "done"
               /\ \A u \in Tagged : ValidTemplate(u) => InMenu(u)

\* C2: a tagged URI without a keyword is dropped alone: with no repository error
\* at all, the run completes and the menu holds the bookmark engine of every
\* other tagged URI with a valid keyword template.
C2_AbsentKeywordDropsOnlyThatURI ==
    \A r \in 1..Len(runs) :
        (/\ Ended(runs[r])
         /\ \E u \in Tagged : AbsentKeyword(u)
         /\ \A u \in Tagged : ~RepositoryError(u))
            => /\ runs[r].stage = "done"
               /\ \A u \in Tagged : ValidTemplate(u) => InMenu(u)

\* the bookmark engines of the model's state: those a run resolved, and those
\* in the popup
Produced ==
    UNION {{runs[r].bookmarks[i] : i \in 1..Len(runs[r].bookmarks)} : r \in 1..Len(runs)}
    \cup {b \in {PopupBookmarks[i].engine.bookmark : i \in 1..Len(PopupBookmarks)} :
             b.tag = "bookmark"}

\* C7: a keyword record whose url and decoded postData both lack %s never
\* becomes a bookmark engine, and every bookmark engine has %s in its url or in
\* its decoded postData.
C7_OnlySearchTemplates ==
    /\ \A b \in Produced : RegexTest(Marker, b.url) \/ RegexTest(Marker, b.postData)
    /\ \A u \in Tagged :
           (/\ ~RegexTest(Marker, repo.profile[u].url)
            /\ ~RegexTest(Marker, DecodedPostData(u)))
               => \A b \in Produced : b.url # repo.profile[u].url

\* a run ended with the engine of a postData-only template in the menu and a
\* URI without any marker left out
C7_Witness ==
    \E r \in 1..Len(runs) : \E u, v \in Tagged :
        /\ runs[r].stage = "done"
        /\ repo.profile[u].kw = "record" /\ repo.profile[v].kw = "record"
        /\ ~RegexTest(Marker, repo.profile[u].url)
        /\ ~RegexTest(Marker, DecodedPostData(u))
        /\ ~InMenu(u)
        /\ ~RegexTest(Marker, repo.profile[v].url)
        /\ RegexTest(Marker, DecodedPostData(v))
        /\ InMenu(v)

\* the type Places gives item `id`
TypeOfItem(id) ==
    LET u == CHOOSE v \in DOMAIN repo.profile :
                 \E n \in 1..Len(repo.profile[v].ids) : repo.profile[v].ids[n].id = id
        n == CHOOSE m \in 1..Len(repo.profile[u].ids) : repo.profile[u].ids[m].id = id
    IN  repo.profile[u].ids[n].type

\* C8: a tagged URI whose bookmark ids are all folders or separators, or that
\* has none, yields no bookmark engine, and the id of every bookmark engine is
\* the id of an item of bookmark type.
C8_OnlyBookmarkItems ==
    /\ \A b \in Produced : TypeOfItem(b.id) = TYPE_BOOKMARK
    /\ \A u \in Tagged :
           BookmarkItems(u) = {} => \A b \in Produced : b.url # repo.profile[u].url

\* a run ended with a folder-only URI left out and the engine of a URI whose
\* first id is a folder in the menu
C8_Witness ==
    \E r \in 1..Len(runs) : \E u, v \in Tagged :
        /\ runs[r].stage = "done"
        /\ repo.profile[u].kw = "record" /\ Len(repo.profile[u].ids) > 0
        /\ BookmarkItems(u) = {}
        /\ ~InMenu(u)
        /\ Len(repo.profile[v].ids) = 2
        /\ repo.profile[v].ids[1].type = TYPE_FOLDER
        /\ InMenu(v)

\* the URI a bookmark engine was built for
URIOf(b) == URIOfURL(b.url)

\* C9 as claimed: the engine of a URI is built from the lowest of its
\* bookmark-type ids.
C9_LowestBookmarkId ==
    \A b \in Produced :
        \A n \in BookmarkItems(URIOf(b)) : b.id <= repo.profile[URIOf(b)].ids[n].id

\* C9 as amended: the engine of a URI is built from the first bookmark-type id
\* in the order getBookmarkIdsForURI returned the ids.
C9_FirstBookmarkId ==
    \A b \in Produced :
        \E n \in BookmarkItems(URIOf(b)) :
            /\ repo.profile[URIOf(b)].ids[n].id = b.id
            /\ \A m \in BookmarkItems(URIOf(b)) : n <= m

\* the menu holds the engine of a URI with two bookmark-type ids, returned
\* highest first
C9_Witness ==
    \E b \in Produced :
        /\ Cardinality(BookmarkItems(URIOf(b))) = 2
        /\ repo.profile[URIOf(b)].ids[1].id > repo.profile[URIOf(b)].ids[2].id
        /\ InMenu(URIOf(b))

\* the favicon url resolveBookmarkFavicon is to give the bookmark engine of URI
\* u: a data URI of the fetched bytes, the default favicon for none or a failure
ExpectedIcon(u) ==
    LET f == repo.profile[u].favicon
    IN  IF f.outcome = "rejected" \/ f.dataLen = 0 THEN getDefaultFavicon
        ELSE <<"data:", f.mimeType, ";base64,">> \o Base64Encode(f.data)

\* Promise.all(resolvingFavicons) of the run has resolved
Enriched(run) == Ended(run) /\ Len(run.bookmarks) > 0

\* C3: enrichment returns a sequence as long as its input, each element the
\* corresponding bookmark engine with a favicon url that is not empty: a data
\* URI for favicon data, the default favicon for data of length zero.
C3_EveryEngineHasFavicon ==
    \A r \in 1..Len(runs) :
        Enriched(runs[r]) =>
            /\ Len(runs[r].enriched) = Len(runs[r].bookmarks)
            /\ \A i \in 1..Len(runs[r].bookmarks) :
                   /\ runs[r].enriched[i].tag = "bookmark"
                   /\ runs[r].enriched[i] =
                          [runs[r].bookmarks[i] EXCEPT
                              !.iconURL = ExpectedIcon(URIOf(runs[r].bookmarks[i]))]
                   /\ runs[r].enriched[i].iconURL # <<>>

\* the candidates of the run whose favicon fetch rejects
Rejecting(run) ==
    {i \in 1..Len(run.bookmarks) :
        repo.profile[URIOf(run.bookmarks[i])].favicon.outcome = "rejected"}

\* C4: when the favicon fetch rejects for exactly one of N candidates,
\* enrichment resolves with N bookmark engines: the failing one with the
\* default favicon, the others with the favicon of their own fetch.
C4_OneFailureOfN ==
    \A r \in 1..Len(runs) :
        (Enriched(runs[r]) /\ Cardinality(Rejecting(runs[r])) = 1) =>
            /\ Len(runs[r].enriched) = Len(runs[r].bookmarks)
            /\ \A i \in 1..Len(runs[r].bookmarks) :
                   /\ runs[r].enriched[i].tag = "bookmark"
                   /\ runs[r].enriched[i].id = runs[r].bookmarks[i].id
                   /\ runs[r].enriched[i].iconURL = ExpectedIcon(URIOf(runs[r].bookmarks[i]))

\* C5: enrichment is a settle-all barrier: a run has sorted, and the popup holds
\* bookmark menuitems of a run, only when no favicon fetch of that run is
\* pending.
C5_SettleAllBarrier ==
    /\ \A r \in 1..Len(runs) :
           (runs[r].stage = "done" \/ runs[r].enriched # <<>> \/ runs[r].sorted # <<>>)
               => \A i \in 1..Len(runs[r].fav) : runs[r].fav[i] = "settled"
    /\ \A n \in 1..Len(PopupBookmarks) :
           \E r \in 1..Len(runs) :
               /\ runs[r].stage = "done"
               /\ \E i \in 1..Len(runs[r].sorted) :
                      runs[r].sorted[i] = PopupBookmarks[n].engine.bookmark
               /\ runs[r].searchText = PopupBookmarks[n].searchtext
               /\ \A i \in 1..Len(runs[r].fav) : runs[r].fav[i] = "settled"

\* a run appended its two bookmark menuitems after one favicon fetch failed and
\* the other succeeded, while a later run still waits for a favicon
C5_Witness ==
    /\ Len(runs) = 2
    /\ runs[1].stage = "done"
    /\ Len(runs[1].sorted) = 2
    /\ Cardinality(Rejecting(runs[1])) = 1
    /\ Len(PopupBookmarks) = 2
    /\ runs[2].stage = "enriching"
    /\ \E i, j \in 1..Len(runs[2].fav) : runs[2].fav[i] = "settled" /\ runs[2].fav[j] = "pending"

\* the place of bookmark engine b in what the run's sort was given
PlaceIn(run, b) == CHOOSE i \in 1..Len(run.enriched) : run.enriched[i] = b

\* run r ends in this step with its last callback
Completes(r) ==
    /\ runs'[r].stage = "done"
    /\ r > Len(runs) \/ runs[r].stage # "done"

\* the bookmark menuitems this step appended: onPopupShown builds the popup
\* anew, a settled fetch adds to the popup as it is
AppendedBookmarks ==
    IF limits'.popups # limits.popups THEN PopupBookmarks'
    ELSE SubSeq(PopupBookmarks', Len(PopupBookmarks) + 1, Len(PopupBookmarks'))

\* C6: the bookmark menuitems a run appends are in ascending order of title
\* under the locale's comparison, and those of equal title are in the order
\* the sort was given them.
C6_SortedByTitleStable ==
    [][\A r \in 1..Len(runs') :
          Completes(r) =>
              /\ Len(AppendedBookmarks) = Len(runs'[r].enriched)
              /\ \A i, j \in 1..Len(AppendedBookmarks) :
                     i < j =>
                         LET a == AppendedBookmarks[i].engine.bookmark
                             b == AppendedBookmarks[j].engine.bookmark
                         IN  /\ LocaleRank[a.title] <= LocaleRank[b.title]
                             /\ a.title = b.title
                                    => PlaceIn(runs'[r], a) < PlaceIn(runs'[r], b)]_vars

\* a run appended three bookmark menuitems that the sort had to reorder, two of
\* them of equal title, and an upper-case title behind a lower-case one
C6_Witness ==
    \E r \in 1..Len(runs) :
        /\ runs[r].stage = "done"
        /\ Len(PopupBookmarks) = 3
        /\ runs[r].enriched # runs[r].sorted
        /\ PopupBookmarks[1].label = "a"
        /\ PopupBookmarks[2].label = "B"
        /\ PopupBookmarks[3].label = "B"

\* the call of getSubmission has returned a submission
Returned == "bookmark" \in DOMAIN call /\ call.result # NotCalled /\ ~call.result.threw

\* where the marker starts in the url template of the call
MarkersOfCall ==
    {i \in 1..Len(call.bookmark.url) - 1 :
        call.bookmark.url[i] = "%" /\ call.bookmark.url[i + 1] = "s"}

\* where the character at place i of the template is in the result: every
\* marker before it has become the encoded text
PlaceInResult(i) ==
    i + Cardinality({p \in MarkersOfCall : p < i}) * (Len(encodedText(call.searchText)) - 2)

\* the places of the result the encoded text was put at
InsertedPlaces ==
    UNION {PlaceInResult(p)..(PlaceInResult(p) + Len(encodedText(call.searchText)) - 1) :
              p \in MarkersOfCall}

\* every marker of the template has become the encoded text, every other
\* character is where it was; a template without a marker is the result
SubstitutedEverywhere ==
    LET t == call.bookmark.url
        e == encodedText(call.searchText)
        r == call.result.uri
    IN  /\ Len(r) = Len(t) + Cardinality(MarkersOfCall) * (Len(e) - 2)
        /\ \A i \in 1..Len(t) :
               (i \notin MarkersOfCall /\ (i - 1) \notin MarkersOfCall)
                   => r[PlaceInResult(i)] = t[i]
        /\ \A p \in MarkersOfCall :
               SubSeq(r, PlaceInResult(p), PlaceInResult(p) + Len(e) - 1) = e
        /\ MarkersOfCall = {} => r = t

----------------------------------------------------------------------------
(* C11: the encoding of the text.                                          *)

\* the text as a query component: a space is "+", an unreserved character is
\* itself, any other character is %XX of its byte
QueryEncodeChar(c) ==
    IF c = " " THEN <<"+">>
    ELSE IF c \in Unreserved THEN <<c>>
    ELSE <<"%", HexDigits[(CharCode[c] \div 16) + 1], HexDigits[(CharCode[c] % 16) + 1]>>

RECURSIVE QueryEncode(_)
QueryEncode(t) == IF t = <<>> THEN <<>> ELSE QueryEncodeChar(Head(t)) \o QueryEncode(Tail(t))

QueryPrefix == SubSeq(QueryTemplate, 1, Len(QueryTemplate) - Len(Marker))

\* what getSubmission put in the place of the marker of QueryTemplate
EncodedInResult == SubSeq(call.result.uri, Len(QueryPrefix) + 1, Len(call.result.uri))

\* C11: the text is percent-encoded as a query component and every space is
\* written "+", never "%20": " " gives "+", "a b" gives "a+b", "a&b" gives
\* "a%26b", and https://x.com/s?q=%s with "hello world" gives
\* https://x.com/s?q=hello+world.
C11_EncodeSpaceAsPlus ==
    ("bookmark" \in DOMAIN call /\ call.bookmark.url = QueryTemplate
        /\ call.result # NotCalled) =>
        /\ ~call.result.threw
        /\ call.result.uri = QueryPrefix \o QueryEncode(call.searchText)
        /\ ~RegexTest(<<"%", "2", "0">>, EncodedInResult)
        /\ ~RegexTest(<<" ">>, EncodedInResult)
        /\ call.searchText = <<" ">> => EncodedInResult = <<"+">>
        /\ call.searchText = <<"a", " ", "b">> => EncodedInResult = <<"a", "+", "b">>
        /\ call.searchText = <<"a", "&", "b">> => EncodedInResult = <<"a", "%", "2", "6", "b">>
        /\ call.searchText = HelloWorld =>
               call.result.uri = QueryPrefix \o <<"h", "e", "l", "l", "o", "+", "w", "o", "r", "l", "d">>

\* "hello world" was submitted to the engine of https://x.com/s?q=%s
C11_Witness ==
    /\ "bookmark" \in DOMAIN call
    /\ call.bookmark.url = QueryTemplate
    /\ call.searchText = HelloWorld
    /\ call.result # NotCalled
    /\ ~call.result.threw
    /\ RegexTest(<<"+">>, call.result.uri)

----------------------------------------------------------------------------
(* C12: a substituted URI that does not parse.                             *)

\* this step is a click on a bookmark menuitem whose getSubmission threw at
\* newURI: the engine holds a bookmark, so the url was there to substitute
ParseFailureClick ==
    /\ limits'.clicks < limits.clicks
    /\ call' # call
    /\ call'.bookmark.tag = "bookmark"
    /\ call'.result.threw

\* C12: when the URI after substitution does not parse, the click is a logged
\* no-op: no navigation starts, the context menu is not hidden, the MRU engine
\* is unchanged, and onMenuClicked does not end with an uncaught exception.
C12_ParseFailureIsLoggedNoOp ==
    [][ParseFailureClick =>
          /\ nav' = nav
          /\ mruEngine' = mruEngine
          /\ log' # log
          /\ Uncaught("onMenuClicked") \notin log']_vars

----------------------------------------------------------------------------
(* C13: nothing to search with.                                            *)

\* the tag has no tagged URI, or none with a valid template, and no Places
\* call fails
NoValidTemplate ==
    /\ repo.tag # ""
    /\ \A u \in Tagged : ~ValidTemplate(u) /\ ~RepositoryError(u)

Separators == SelectSeq(popup, LAMBDA item : item.type = "menuseparator")

\* C13: absence of input is no error: with an empty tag preference no run is
\* started; with no tagged URI or no valid template a run that has ended has
\* completed with an empty sequence; in these cases the popup holds no
\* bookmark item and no separator, and no failure of a run is logged.
C13_AbsenceIsNotAnError ==
    /\ repo.tag = "" => runs = <<>>
    /\ (repo.tag = "" \/ NoValidTemplate) =>
           /\ PopupBookmarks = <<>>
           /\ Separators = <<>>
           /\ \A r \in 1..Len(runs) :
                  /\ PipelineError(r) \notin log
                  /\ Ended(runs[r]) => runs[r].stage = "done" /\ runs[r].sorted = <<>>

----------------------------------------------------------------------------
(* C14: the most recently used engine.                                     *)

\* this step is a click that got a submission with a URI and opened it
SubmittingClick ==
    /\ limits'.clicks < limits.clicks
    /\ nav' # nav
    /\ nav'.hidePopup

\* the engine's submission for one of the texts is what the step opened
Opened(engine) ==
    \E text \in MenuTexts :
        /\ ~EngineSubmission(engine, text).threw
        /\ nav'.openLinkIn.url = EngineSubmission(engine, text).uri

\* this step is a popup-shown event, with an MRU engine set, that did not
\* return for a missing window or element
PopupOpens ==
    /\ limits'.popups < limits.popups
    /\ mruEngine # NullEngine
    /\ repo.engines.valid
    /\ Warn("onPopupShown - missing") \notin log'

\* the step went on to fill the popup
PopupFilled == Len(runs') > Len(runs) \/ popup' # <<>>

LabelOf(engine) == IF engine.kind = "system" THEN engine.name ELSE engine.bookmark.title
IconOf(engine) == IF engine.kind = "system" THEN engine.icon ELSE engine.bookmark.iconURL

\* C14: after a click on a menu item whose engine (system or bookmark) gives a
\* submission with a URI, that engine is the MRU engine; the next popup-shown
\* event keeps it, and takes the menu's label and icon from it.
C14_ClickedEngineIsRetained ==
    [][/\ SubmittingClick => Opened(mruEngine')
       /\ PopupOpens =>
              /\ mruEngine' = mruEngine
              /\ PopupFilled =>
                     /\ menu'.label.name = LabelOf(mruEngine)
                     /\ menu'.image = IconOf(mruEngine)]_vars

----------------------------------------------------------------------------
(* C15: the POST body of a submission.                                     *)

\* the body a postData template is to give with the encoded text `enc`
ExpectedBody(template, enc) ==
    IF template = <<"q", "=", "%", "s">> THEN <<"q", "=">> \o enc
    ELSE IF template = <<"%", "s", "&", "%", "s">> THEN enc \o <<"&">> \o enc
    ELSE template

\* C15: getSubmission returns a POST body exactly when the engine has a
\* postData template that is not empty: the template with every %s replaced by
\* the encoded text, of content type application/x-www-form-urlencoded and with
\* the length of the substituted body as content length; with no postData
\* template the submission has no body.
C15_PostBody ==
    Returned =>
        /\ call.result.postData.present <=> call.bookmark.postData # <<>>
        /\ call.bookmark.postData = <<>> => call.result.postData = NoPostData
        /\ call.result.postData.present =>
               /\ call.result.postData.data =
                      ExpectedBody(call.bookmark.postData, QueryEncode(call.searchText))
               /\ ~RegexTest(Marker, QueryEncode(call.searchText))
               /\ call.result.postData.contentType = "application/x-www-form-urlencoded"
               /\ call.result.postData.contentLength = Len(call.result.postData.data)

\* a text with a space was submitted to an engine whose postData has two markers
C15_Witness ==
    /\ Returned
    /\ call.bookmark.postData = <<"%", "s", "&", "%", "s">>
    /\ RegexTest(<<" ">>, call.searchText)
    /\ call.result.postData.present
    /\ call.result.postData.contentLength > Len(call.bookmark.postData)

----------------------------------------------------------------------------
(* C16: runs that repeat.                                                  *)

\* C16: over one snapshot of the repository any two runs that have ended have
\* ended alike, with the same sorted sequence of bookmark engines, whatever
\* the order in which the keyword and favicon fetches of each settled.
C16_RepeatedRunsAgree ==
    \A r1, r2 \in 1..Len(runs) :
        (Ended(runs[r1]) /\ Ended(runs[r2])) =>
            /\ runs[r1].stage = runs[r2].stage
            /\ runs[r1].sorted = runs[r2].sorted

\* two runs have completed with the same two engines, in another order than
\* the tagging service gave their URIs
C16_Witness ==
    /\ Len(runs) = 2
    /\ runs[1].stage = "done"
    /\ runs[2].stage = "done"
    /\ Len(runs[1].sorted) >= 2
    /\ runs[1].sorted = runs[2].sorted
    /\ runs[1].sorted[1].id # runs[1].bookmarks[1].id

----------------------------------------------------------------------------
(* C17: every run ends.                                                    *)

\* run r has finished: its last callback ran, or its failure is logged
Finished(r) ==
    /\ Len(runs) >= r
    /\ \/ runs[r].stage = "done"
       \/ runs[r].stage = "failed" /\ PipelineError(r) \in log

\* C17: when every keyword fetch and every favicon fetch settles, every run a
\* popup-shown event started finishes, by appending its bookmark items or by
\* logging its failure: no run stays pending for ever.
C17_EveryRunFinishes ==
    \A r \in 1..MaxPopups : (Len(runs) >= r) ~> Finished(r)

\* two runs have finished, the later one by appending its bookmark items
C17_Witness ==
    /\ Len(runs) = 2
    /\ Finished(1)
    /\ Finished(2)
    /\ runs[2].stage = "done"
    /\ Len(runs[2].sorted) > 0
    /\ Len(PopupBookmarks) >= Len(runs[2].sorted)

----------------------------------------------------------------------------
(* C18: runs that overlap.                                                 *)

\* C18: runs that overlap are kept apart: whatever the interleaving of
\* popup-shown events and completions of earlier runs, the popup holds each
\* bookmark engine at most once and at most one separator, and every bookmark
\* item carries the search text of the latest popup-shown event that started
\* a run.
C18_OverlappingRunsKeptApart ==
    /\ Len(Separators) <= 1
    /\ \A i, j \in 1..Len(PopupBookmarks) :
           i # j => PopupBookmarks[i].engine.bookmark # PopupBookmarks[j].engine.bookmark
    /\ \A i \in 1..Len(PopupBookmarks) :
           PopupBookmarks[i].searchtext = runs[Len(runs)].searchText

----------------------------------------------------------------------------
(* C19: the popup of one run.                                              *)

\* C19: with one run and no other popup-shown event the popup ends as the
\* visible engines in the order of the search service, then one separator if
\* and only if there is a visible engine and a bookmark engine, then the
\* bookmark engines as sorted; the sorted sequence holds no separator.
C19_EnginesSeparatorBookmarks ==
    (Len(runs) = 1 /\ Ended(runs[1]) /\ limits.popups = 0) =>
        LET engines == repo.engines.list
            sorted == runs[1].sorted
            n == Len(engines)
            b == Len(sorted)
            sep == IF n > 0 /\ b > 0 THEN 1 ELSE 0
        IN  /\ Len(popup) = n + sep + b
            /\ \A i \in 1..n :
                   popup[i].type = "menuitem" /\ popup[i].engine = engines[i]
            /\ sep = 1 => popup[n + 1] = Menuseparator
            /\ \A i \in 1..b :
                   /\ popup[n + sep + i].type = "menuitem"
                   /\ popup[n + sep + i].engine.kind = "bookmark"
                   /\ popup[n + sep + i].engine.bookmark = sorted[i]
            /\ \A i \in 1..b : sorted[i] # Menuseparator

\* a run has completed with visible engines and bookmark engines
C19_Witness ==
    /\ Len(runs) = 1
    /\ runs[1].stage = "done"
    /\ limits.popups = 0
    /\ Len(repo.engines.list) = 2
    /\ Len(runs[1].sorted) >= 2
    /\ Len(Separators) = 1
    /\ Len(popup) = 3 + Len(runs[1].sorted)

----------------------------------------------------------------------------
(* C20: no list of visible engines.                                        *)

\* C20: when getVisibleEngines returns a falsy value onPopupShown warns and
\* goes on without failing: it has chosen the MRU or default engine, and the
\* label it sets for a selected text is that engine's.
C20_NoEngineListIsNoFailure ==
    Warn("getVisibleEngines() failed") \in log =>
        /\ Uncaught("onPopupShown") \notin log
        /\ mruEngine # NullEngine
        /\ menu.searchtext # <<>> => menu.label.name = EngineName(mruEngine)

----------------------------------------------------------------------------
(* C21: the engine of the menu's label.                                    *)

\* this step is a popup-shown event that set the label and icon of the menu:
\* it went on to start a run, or the label or the icon is another
LabelSet ==
    /\ limits'.popups < limits.popups
    /\ Len(runs') > Len(runs) \/ menu'.label # menu.label \/ menu'.image # menu.image

\* C21: whenever onPopupShown sets the menu's label and icon, the MRU engine
\* they are taken from is one of the visible engines or the default engine of
\* the search service, and has a name; an engine that was not in the visible
\* list has been replaced by the default engine.
C21_LabelFromVisibleOrDefault ==
    [][LabelSet =>
          /\ \/ \E i \in DOMAIN repo.engines.list : repo.engines.list[i] = mruEngine'
             \/ mruEngine' = repo.defaultEngine
          /\ EngineName(mruEngine') # ""
          /\ menu'.label.name = EngineName(mruEngine')
          /\ menu'.image = mruEngine'.icon
          /\ ( /\ mruEngine # NullEngine
                /\ \A i \in DOMAIN repo.engines.list : repo.engines.list[i] # mruEngine )
                 => mruEngine' = repo.defaultEngine]_vars

\* the menu shows the default engine although another engine was used last:
\* a bookmark engine, or an engine since hidden from the list
C21_Witness ==
    /\ limits.popups = 0
    /\ limits.clicks = 0
    /\ nav.hidePopup
    /\ repo.defaultEngine.kind = "system"
    /\ mruEngine = repo.defaultEngine
    /\ menu.label.name = repo.defaultEngine.name
    /\ \A text \in MenuTexts :
           nav.openLinkIn.url # SystemSubmission(repo.defaultEngine, text).uri

----------------------------------------------------------------------------
(* C22: a failure of the bookmark pipeline.                                *)

SystemItems(menupopup) ==
    SelectSeq(menupopup, LAMBDA item : item.type = "menuitem" /\ item.engine.kind = "system")

\* this step ends run r in its .catch
RunFails(r) ==
    /\ runs'[r].stage = "failed"
    /\ r \notin DOMAIN runs \/ runs[r].stage # "failed"

\* this step leaves the engines' items of the popup, the menu and the MRU engine
MenuKept ==
    /\ SystemItems(popup') = SystemItems(popup)
    /\ menu' = menu
    /\ mruEngine' = mruEngine

\* C22: a failure at any stage of the bookmark pipeline is caught and logged
\* inside the promise chain of onPopupShown and never reaches the caller of
\* onPopupShown: no exception leaves the handler, a run that fails has its
\* error logged, and the step of the failure leaves the system-engine items of
\* the popup, the menu's label and the MRU engine as they were.
C22_FailureStaysInTheChain ==
    [][/\ Uncaught("onPopupShown") \notin log'
       /\ \A r \in DOMAIN runs' :
              RunFails(r) => PipelineError(r) \in log' /\ MenuKept
       /\ \A r \in DOMAIN runs :
              FaviconError(r) \in log' \ log => MenuKept]_vars

====
